---- MODULE Spec2Model ----
(***************************************************************************)
(* Synthesis Studio (src/app.py): a Streamlit script with two pipelines.   *)
(*   Presenter : create_talk -> get_talk_result -> st.video                *)
(*   Captioning: save upload -> extract audio -> transcribe ->             *)
(*               create_video_with_captions -> st.video / download         *)
(* A session is one browser session of the Streamlit server; every click   *)
(* on a button is one run of the script (one pipeline invocation).  The    *)
(* sessions of one server share its working directory.                     *)
(***************************************************************************)
EXTENDS Integers, Sequences, FiniteSets, TLC

\* ------------------------------------------------------------------ bounds
MaxPolls == 3   \* status queries answered with a non-terminal status per call
MaxRuns  == 2   \* script runs (button clicks) per session
MaxSegs  == 2   \* segments in a transcript

\* ------------------------------------------------------------------ values
None == "None"                      \* Python's None, where a string is expected
Sessions == {1, 2}
Truthy(x) == x # None /\ x # ""     \* `if x:` / `not x` on an optional string

Scripts == {"", "Hello world"}
Urls    == {"https://x/v.mp4", "https://x/w.mp4"}
TerminalStatuses == {"done", "error"}
JobStatuses == {"pending", "processing", "done", "error"}
JobId(s) == IF s = 1 THEN "tlk_1" ELSE "tlk_2"
TalkIds  == {JobId(s) : s \in Sessions} \cup {"bogus"}

\* Paths of the intermediate media files (fixed names in the working directory).
TEMP_VIDEO     == "temp_video.mp4"
TEMP_AUDIO     == "temp_audio.mp3"
TEMP_CAPTIONED == "temp_captioned_video.mp4"
Paths == {TEMP_VIDEO, TEMP_AUDIO, TEMP_CAPTIONED}

\* A word of a transcript: times in tenths of a second.
Tok(w, a, b) == [word |-> w, start |-> a, end |-> b]
\* A segment: a dict that may lack the 'words' key.
Seg(ws)  == [has_words |-> TRUE, words |-> ws]
SegBare  == [has_words |-> FALSE, words |-> <<>>]
SegmentPool ==
    { SegBare,
      Seg(<<>>),
      Seg(<<Tok("hi", 0, 4), Tok("there", 4, 9)>>),
      Seg(<<Tok("Ok", 9, 12)>>),
      Seg(<<Tok("um", 4, 4)>>),
      Seg(<<Tok("hi", 9, 4), Tok("Ok", 0, 4)>>),
      Seg(<<Tok("there", 0, 9), Tok("um", 4, 9), Tok("hi", 12, 12)>>) }
RECURSIVE SeqsUpTo(_, _)
SeqsUpTo(S, n) ==
    IF n = 0 THEN {<<>>}
    ELSE LET shorter == SeqsUpTo(S, n - 1)
         IN  shorter \cup {Append(q, x) : q \in {r \in shorter : Len(r) = n - 1}, x \in S}
Transcripts == SeqsUpTo(SegmentPool, MaxSegs)

\* str.upper on the words of the model.
Upper(w) ==
    CASE w = "hi"    -> "HI"
      [] w = "there" -> "THERE"
      [] w = "Ok"    -> "OK"
      [] w = "um"    -> "UM"
      [] OTHER       -> w

\* An uploaded video: whether it decodes, whether it has an audio track, and
\* what is said in it (what the transcription model hears).
Upload(i, d, a, sp) == [id |-> i, decodable |-> d, has_audio |-> a, speech |-> sp]
NoFile == [id |-> None, decodable |-> FALSE, has_audio |-> FALSE, speech |-> <<>>]
UploadId(s) == IF s = 1 THEN "upload_1" ELSE "upload_2"
UploadPool(s) ==
    {Upload(UploadId(s), TRUE, TRUE, sp) : sp \in Transcripts}
    \cup {Upload(UploadId(s), TRUE, FALSE, <<>>), Upload(UploadId(s), FALSE, FALSE, <<>>)}

\* An optional list of segments (None, or a list).
NoSegments   == [is_none |-> TRUE, list |-> <<>>]
Segments(l)  == [is_none |-> FALSE, list |-> l]
\* An optional JSON object of the avatar service.
NoData       == [is_none |-> TRUE, id |-> None]
TalkData(i)  == [is_none |-> FALSE, id |-> i]
NoResult     == [status |-> None, result_url |-> None, result |-> None]
\* The remote job as the status endpoint reports it.
NoJob        == [status |-> "none", result_url |-> None, result |-> None]
JobIn(st)    == [status |-> st, result_url |-> None, result |-> None]
JobDone(u)   == [status |-> "done", result_url |-> u, result |-> None]
JobError     == [status |-> "error", result_url |-> None, result |-> "bad avatar"]
\* A file of the working directory: the media it holds.
Missing      == [video |-> NoFile, captions |-> <<>>, kind |-> "missing"]
VideoFile(u) == [video |-> u, captions |-> <<>>, kind |-> "video"]
AudioFile(u) == [video |-> u, captions |-> <<>>, kind |-> "audio"]
Rendered(u, clips) == [video |-> u, captions |-> clips, kind |-> "captioned"]

VARIABLES
    D_ID_API_KEY,        \* st.secrets.get("D_ID_API_KEY")
    REPLICATE_API_TOKEN, \* st.secrets.get("REPLICATE_API_TOKEN")
    uploadable,          \* the videos a session's user may upload
    files,               \* the working directory: path -> content
    remote,              \* the avatar service's job of each session
    pc,                  \* where each session's script run is
    ret,                 \* where the running helper returns to
    run,                 \* script runs started by each session
    script,              \* st.text_area / create_talk's script_text
    talk_data,           \* create_talk's return value
    talk_id,             \* get_talk_result's talk_id
    status,              \* get_talk_result's status
    result,              \* get_talk_result's result
    video_url,           \* get_talk_result's return value
    caption_video_file,  \* st.file_uploader
    video_clip,          \* the VideoFileClip a run last opened
    segments,            \* transcribe_audio_with_timestamps' return value
    text_clips,          \* create_video_with_captions' text_clips
    final_video_path,    \* create_video_with_captions' return value
    delivered,           \* what st.video / st.download_button were given
    log                  \* the run's effects in order: requests, messages, waits

env  == <<D_ID_API_KEY, REPLICATE_API_TOKEN, uploadable>>
ctl  == <<pc, ret, run>>
pres == <<script, talk_data, talk_id, status, result, video_url>>
capt == <<caption_video_file, video_clip, segments, text_clips, final_video_path, delivered>>
vars == <<env, files, remote, ctl, pres, capt, log>>

Set(f, s, v) == [f EXCEPT ![s] = v]
Emit(s, evs) == log' = [log EXCEPT ![s] = @ \o evs]
Ev(kind, arg) == <<kind, arg>>

\* The locals of a script run: every run starts from a fresh namespace; tid and
\* segs are the arguments of a helper that is called directly.
FreshRun(s, tid, segs) ==
    /\ talk_data' = Set(talk_data, s, NoData)
    /\ talk_id' = Set(talk_id, s, tid)
    /\ status' = Set(status, s, None)
    /\ result' = Set(result, s, NoResult)
    /\ video_url' = Set(video_url, s, None)
    /\ video_clip' = Set(video_clip, s, NoFile)
    /\ segments' = Set(segments, s, segs)
    /\ text_clips' = Set(text_clips, s, <<>>)
    /\ final_video_path' = Set(final_video_path, s, None)
    /\ delivered' = Set(delivered, s, <<>>)

CanStart(s) == pc[s] \in {"idle", "crashed"} /\ run[s] < MaxRuns

InitCommon ==
    /\ D_ID_API_KEY \in {None, "key"}
    /\ REPLICATE_API_TOKEN \in {None, "token"}
    /\ pc = [s \in Sessions |-> "idle"]
    /\ ret = [s \in Sessions |-> "idle"]
    /\ run = [s \in Sessions |-> 0]
    /\ script = [s \in Sessions |-> ""]
    /\ talk_data = [s \in Sessions |-> NoData]
    /\ talk_id = [s \in Sessions |-> None]
    /\ status = [s \in Sessions |-> None]
    /\ result = [s \in Sessions |-> NoResult]
    /\ video_url = [s \in Sessions |-> None]
    /\ caption_video_file = [s \in Sessions |-> NoFile]
    /\ video_clip = [s \in Sessions |-> NoFile]
    /\ segments = [s \in Sessions |-> NoSegments]
    /\ text_clips = [s \in Sessions |-> <<>>]
    /\ final_video_path = [s \in Sessions |-> None]
    /\ delivered = [s \in Sessions |-> <<>>]
    /\ log = [s \in Sessions |-> <<>>]

\* ------------------------------------------------------------ the log
\* Effects of a run, and the stages of the two pipelines beginning and ending.
Begin(stage) == Ev("begin", stage)
Ok(stage)    == Ev("ok", stage)
Fail(stage)  == Ev("fail", stage)
Post(sc)     == Ev("POST", sc)          \* requests.post(D_ID_URL, ...)
Get(id)      == Ev("GET", id)           \* requests.get(D_ID_URL/<id>)
Answer(st)   == Ev("200", st)          \* a status query answered with status st
Whisper      == Ev("replicate.run", "whisper")
Error(msg)   == Ev("st.error", msg)
Raised(what) == Ev("exception", what)   \* an exception no handler catches

RECURSIVE Count(_, _)
Count(q, e) ==
    IF q = <<>> THEN 0
    ELSE (IF Head(q)[1] = e THEN 1 ELSE 0) + Count(Tail(q), e)
Has(q, ev) == \E i \in 1..Len(q) : q[i] = ev
HasKind(q, k) == \E i \in 1..Len(q) : q[i][1] = k

\* ------------------------------------------- the avatar service (remote)
\* The job advances on the service's side only; `done` and `error` are final.
RemoteProgress(s) ==
    /\ remote[s].status \in {"pending", "processing"}
    /\ \/ /\ remote[s].status = "pending"
          /\ remote' = Set(remote, s, JobIn("processing"))
       \/ \E u \in Urls : remote' = Set(remote, s, JobDone(u))
       \/ remote' = Set(remote, s, JobError)
    /\ UNCHANGED <<env, files, ctl, pres, capt, log>>

\* ------------------------------------------------ create_talk (l.53-73)
\* l.55-57: the key is tested before the request is built.
CreateTalk(s) ==
    /\ pc[s] = "create_talk"
    /\ IF ~Truthy(D_ID_API_KEY)
       THEN /\ Emit(s, <<Error("D-ID API Key not found"), Fail("submit")>>)
            /\ talk_data' = Set(talk_data, s, NoData)
            /\ pc' = Set(pc, s, ret[s])
       ELSE /\ pc' = Set(pc, s, "L68")
            /\ UNCHANGED <<talk_data, log>>
    /\ UNCHANGED <<env, files, remote, ret, run, script, talk_id, status, result,
                   video_url, capt>>

\* l.67-73: one POST; raise_for_status; the JSON body is the return value.
CreateTalkPost(s) ==
    /\ pc[s] = "L68"
    /\ \/ \* 2xx with a JSON object: the job exists when the object names it
          \E id \in {JobId(s), "", None} :
            /\ talk_data' = Set(talk_data, s, TalkData(id))
            /\ remote' = IF id = JobId(s) THEN Set(remote, s, JobIn("pending")) ELSE remote
            /\ Emit(s, <<Post(script[s]), Ok("submit")>>)
            /\ pc' = Set(pc, s, ret[s])
       \/ \* transport error, non-2xx, or a body requests reports as a RequestException
          /\ talk_data' = Set(talk_data, s, NoData)
          /\ Emit(s, <<Post(script[s]), Error("Error creating D-ID talk"), Fail("submit")>>)
          /\ pc' = Set(pc, s, ret[s])
          /\ UNCHANGED remote
       \/ \* a body that is not JSON, with a requests whose json() raises ValueError
          /\ Emit(s, <<Post(script[s]), Raised("ValueError"), Fail("submit")>>)
          /\ pc' = Set(pc, s, "crashed")
          /\ UNCHANGED <<talk_data, remote>>
    /\ UNCHANGED <<env, files, ret, run, script, talk_id, status, result, video_url, capt>>

\* GetTalkResult without the test of l.77.
GetTalkResult_NoKeyTest(s) ==
    /\ pc[s] = "get_talk_result"
    /\ status' = Set(status, s, "")
    /\ pc' = Set(pc, s, "L80")
    /\ UNCHANGED <<env, files, remote, ret, run, script, talk_data, talk_id, result,
                   video_url, capt, log>>

\* -------------------------------------------- get_talk_result (l.75-94)
\* l.77-79
GetTalkResult(s) ==
    /\ pc[s] = "get_talk_result"
    /\ IF ~Truthy(D_ID_API_KEY)
       THEN /\ video_url' = Set(video_url, s, None)
            /\ Emit(s, <<Fail("poll")>>)
            /\ pc' = Set(pc, s, ret[s])
            /\ UNCHANGED status
       ELSE /\ status' = Set(status, s, "")
            /\ pc' = Set(pc, s, "L80")
            /\ UNCHANGED <<video_url, log>>
    /\ UNCHANGED <<env, files, remote, ret, run, script, talk_data, talk_id, result, capt>>

\* LoopTest with an attempt limit: `while status not in [...] and attempts < 2`.
LoopTest_AttemptLimit(s) ==
    /\ pc[s] = "L80"
    /\ pc' = Set(pc, s, IF status[s] \notin TerminalStatuses /\ Count(log[s], "GET") < 2
                        THEN "L82" ELSE "L91")
    /\ UNCHANGED <<env, files, remote, ret, run, pres, capt, log>>

\* l.80: while status not in ["done", "error"]
LoopTest(s) ==
    /\ pc[s] = "L80"
    /\ pc' = Set(pc, s, IF status[s] \notin TerminalStatuses THEN "L82" ELSE "L91")
    /\ UNCHANGED <<env, files, remote, ret, run, pres, capt, log>>

\* StatusQuery with a handler that reports the error and lets the loop go on
\* (l.90's return left out).
StatusQuery_NoReturn(s) ==
    /\ pc[s] = "L82"
    /\ \/ /\ talk_id[s] = JobId(s)
          /\ remote[s].status \in JobStatuses
          /\ remote[s].status \in TerminalStatuses \/ Count(log[s], "GET") < MaxPolls
          /\ result' = Set(result, s, remote[s])
          /\ status' = Set(status, s, remote[s].status)
          /\ Emit(s, <<Get(talk_id[s]), Answer(remote[s].status)>>)
          /\ pc' = Set(pc, s, "L86")
       \/ /\ Emit(s, <<Get(talk_id[s]), Error("Error getting D-ID result"), Fail("poll")>>)
          /\ pc' = Set(pc, s, "L80")
          /\ UNCHANGED <<result, status>>
    /\ UNCHANGED <<env, files, remote, ret, run, script, talk_data, talk_id, video_url, capt>>

\* l.82-85 and the handler l.88-90: one GET of the job's status.
StatusQuery(s) ==
    /\ pc[s] = "L82"
    /\ \/ \* 2xx: the job as the service reports it
          /\ talk_id[s] = JobId(s)
          /\ remote[s].status \in JobStatuses
          /\ remote[s].status \in TerminalStatuses \/ Count(log[s], "GET") < MaxPolls
          /\ result' = Set(result, s, remote[s])
          /\ status' = Set(status, s, remote[s].status)
          /\ Emit(s, <<Get(talk_id[s]), Answer(remote[s].status)>>)
          /\ pc' = Set(pc, s, "L86")
          /\ UNCHANGED video_url
       \/ \* transport error, non-2xx (an unknown id among them), RequestException
          /\ Emit(s, <<Get(talk_id[s]), Error("Error getting D-ID result"), Fail("poll")>>)
          /\ video_url' = Set(video_url, s, None)
          /\ pc' = Set(pc, s, ret[s])
          /\ UNCHANGED <<result, status>>
       \/ \* a body that is not JSON, with a requests whose json() raises ValueError
          /\ Emit(s, <<Get(talk_id[s]), Raised("ValueError"), Fail("poll")>>)
          /\ pc' = Set(pc, s, "crashed")
          /\ UNCHANGED <<result, status, video_url>>
    /\ UNCHANGED <<env, files, remote, ret, run, script, talk_data, talk_id, capt>>

\* Toast left out: the iteration goes on without st.toast.
Toast_Silent(s) ==
    /\ pc[s] = "L86"
    /\ pc' = Set(pc, s, "L87")
    /\ UNCHANGED <<env, files, remote, ret, run, pres, capt, log>>

\* l.86: st.toast
Toast(s) ==
    /\ pc[s] = "L86"
    /\ Emit(s, <<Ev("st.toast", status[s])>>)
    /\ pc' = Set(pc, s, "L87")
    /\ UNCHANGED <<env, files, remote, ret, run, pres, capt>>

\* Sleep left out: the loop queries again at once.
Sleep_Skipped(s) ==
    /\ pc[s] = "L87"
    /\ pc' = Set(pc, s, "L80")
    /\ UNCHANGED <<env, files, remote, ret, run, pres, capt, log>>

\* l.87: time.sleep(10)
Sleep(s) ==
    /\ pc[s] = "L87"
    /\ Emit(s, <<Ev("time.sleep", "10")>>)
    /\ pc' = Set(pc, s, "L80")
    /\ UNCHANGED <<env, files, remote, ret, run, pres, capt>>

\* ReturnResult reading a key the answer does not have (result.get("url")).
ReturnResult_WrongKey(s) ==
    /\ pc[s] = "L91"
    /\ IF status[s] = "error"
       THEN Emit(s, <<Error("D-ID job failed"), Fail("poll")>>)
       ELSE Emit(s, <<Fail("poll")>>)
    /\ video_url' = Set(video_url, s, None)
    /\ pc' = Set(pc, s, ret[s])
    /\ UNCHANGED <<env, files, remote, ret, run, script, talk_data, talk_id, status,
                   result, capt>>

\* ReturnResult with the error payload returned where l.93 returns None.
ReturnResult_ErrorPayload(s) ==
    /\ pc[s] = "L91"
    /\ IF status[s] = "error"
       THEN /\ Emit(s, <<Error("D-ID job failed"), Fail("poll")>>)
            /\ video_url' = Set(video_url, s, result[s].result)
       ELSE /\ video_url' = Set(video_url, s, result[s].result_url)
            /\ Emit(s, <<IF Truthy(result[s].result_url) THEN Ok("poll") ELSE Fail("poll")>>)
    /\ pc' = Set(pc, s, ret[s])
    /\ UNCHANGED <<env, files, remote, ret, run, script, talk_data, talk_id, status,
                   result, capt>>

\* l.91-94: after the loop
ReturnResult(s) ==
    /\ pc[s] = "L91"
    /\ IF status[s] = "error"
       THEN /\ Emit(s, <<Error("D-ID job failed"), Fail("poll")>>)
            /\ video_url' = Set(video_url, s, None)
       ELSE /\ video_url' = Set(video_url, s, result[s].result_url)
            /\ Emit(s, <<IF Truthy(result[s].result_url) THEN Ok("poll") ELSE Fail("poll")>>)
    /\ pc' = Set(pc, s, ret[s])
    /\ UNCHANGED <<env, files, remote, ret, run, script, talk_data, talk_id, status,
                   result, capt>>

\* --------------------------------- the Presenter orchestrator (l.150-167)
\* l.150-157: the button; the script and the key are tested before create_talk.
StartPresenter(s) ==
    /\ CanStart(s)
    /\ run' = Set(run, s, run[s] + 1)
    /\ FreshRun(s, None, NoSegments)
    /\ \E sc \in Scripts :
         /\ script' = Set(script, s, sc)
         /\ IF ~Truthy(sc)
            THEN /\ log' = Set(log, s, <<Ev("st.warning", "Please enter a script first.")>>)
                 /\ pc' = Set(pc, s, "idle")
                 /\ UNCHANGED ret
            ELSE IF ~Truthy(D_ID_API_KEY)
            THEN /\ log' = Set(log, s, <<Error("D-ID API Key is missing")>>)
                 /\ pc' = Set(pc, s, "idle")
                 /\ UNCHANGED ret
            ELSE /\ log' = Set(log, s, <<Begin("submit")>>)
                 /\ pc' = Set(pc, s, "create_talk")
                 /\ ret' = Set(ret, s, "L158")
    /\ UNCHANGED <<env, files, remote, caption_video_file>>

\* AfterCreateTalk with `if talk_data:` for l.158's test of the id as well.
AfterCreateTalk_IdUnchecked(s) ==
    /\ pc[s] = "L158"
    /\ IF ~talk_data[s].is_none
       THEN /\ talk_id' = Set(talk_id, s, talk_data[s].id)
            /\ Emit(s, <<Ev("st.info", "Video generation job started!"), Begin("poll")>>)
            /\ pc' = Set(pc, s, "get_talk_result")
            /\ ret' = Set(ret, s, "L163")
       ELSE /\ Emit(s, <<Error("Failed to start the video generation job.")>>)
            /\ pc' = Set(pc, s, "idle")
            /\ UNCHANGED <<talk_id, ret>>
    /\ UNCHANGED <<env, files, remote, run, script, talk_data, status, result, video_url, capt>>

\* AfterCreateTalk without the test of l.158: polling starts whatever
\* create_talk returned.
AfterCreateTalk_Unchecked(s) ==
    /\ pc[s] = "L158"
    /\ talk_id' = Set(talk_id, s, talk_data[s].id)
    /\ Emit(s, <<Ev("st.info", "Video generation job started!"), Begin("poll")>>)
    /\ pc' = Set(pc, s, "get_talk_result")
    /\ ret' = Set(ret, s, "L163")
    /\ UNCHANGED <<env, files, remote, run, script, talk_data, status, result, video_url, capt>>

\* l.158-162 and l.167
AfterCreateTalk(s) ==
    /\ pc[s] = "L158"
    /\ IF ~talk_data[s].is_none /\ Truthy(talk_data[s].id)
       THEN /\ talk_id' = Set(talk_id, s, talk_data[s].id)
            /\ Emit(s, <<Ev("st.info", "Video generation job started!"), Begin("poll")>>)
            /\ pc' = Set(pc, s, "get_talk_result")
            /\ ret' = Set(ret, s, "L163")
       ELSE /\ Emit(s, <<Error("Failed to start the video generation job.")>>)
            /\ pc' = Set(pc, s, "idle")
            /\ UNCHANGED <<talk_id, ret>>
    /\ UNCHANGED <<env, files, remote, run, script, talk_data, status, result, video_url, capt>>

\* l.163-166
AfterGetTalkResult(s) ==
    /\ pc[s] = "L163"
    /\ IF Truthy(video_url[s])
       THEN Emit(s, <<Begin("display"), Ev("st.video", video_url[s]), Ok("display")>>)
       ELSE Emit(s, <<Error("Failed to retrieve the generated video.")>>)
    /\ pc' = Set(pc, s, "idle")
    /\ UNCHANGED <<env, files, remote, ret, run, pres, capt>>

\* ------------------------- transcribe_audio_with_timestamps (l.97-110)
\* l.99-101
Transcribe(s) ==
    /\ pc[s] = "transcribe"
    /\ IF ~Truthy(REPLICATE_API_TOKEN)
       THEN /\ Emit(s, <<Error("Replicate API token not found. Cannot generate captions."),
                        Fail("transcribe")>>)
            /\ segments' = Set(segments, s, NoSegments)
            /\ pc' = Set(pc, s, ret[s])
       ELSE /\ pc' = Set(pc, s, "L103")
            /\ UNCHANGED <<segments, log>>
    /\ UNCHANGED <<env, files, remote, ret, run, pres, caption_video_file, video_clip,
                   text_clips, final_video_path, delivered>>

\* l.102-110: open the audio file, replicate.run, output.get("segments", [])
TranscribeRun(s) ==
    /\ pc[s] = "L103"
    /\ \/ \* the model answers with the segments of what it heard
          /\ files[TEMP_AUDIO].kind = "audio"
          /\ segments' = Set(segments, s, Segments(files[TEMP_AUDIO].video.speech))
          /\ Emit(s, <<Whisper, Ok("transcribe")>>)
       \/ \* the model's output has no "segments" key
          /\ files[TEMP_AUDIO].kind = "audio"
          /\ segments' = Set(segments, s, Segments(<<>>))
          /\ Emit(s, <<Whisper, Ok("transcribe")>>)
       \/ \* replicate.run raises (transport, authentication, model error)
          /\ files[TEMP_AUDIO].kind = "audio"
          /\ segments' = Set(segments, s, NoSegments)
          /\ Emit(s, <<Whisper, Error("An error occurred during transcription"),
                      Fail("transcribe")>>)
       \/ \* open() raises: there is no such file
          /\ files[TEMP_AUDIO].kind # "audio"
          /\ segments' = Set(segments, s, NoSegments)
          /\ Emit(s, <<Error("An error occurred during transcription"), Fail("transcribe")>>)
    /\ pc' = Set(pc, s, ret[s])
    /\ UNCHANGED <<env, files, remote, ret, run, pres, caption_video_file, video_clip,
                   text_clips, final_video_path, delivered>>

\* ------------------------------- create_video_with_captions (l.112-132)
\* l.118: segment.get('words', [])
WordsOf(segment) == IF segment.has_words THEN segment.words ELSE <<>>

\* TextClip with set_duration(end) for l.121's set_duration(end - start).
TextClip_DurationEnd(word_info) ==
    [text     |-> Upper(word_info.word),
     pos      |-> "center",
     duration |-> word_info.end,
     start    |-> word_info.start]

\* l.119-121: the TextClip of one word
TextClip(word_info) ==
    [text     |-> Upper(word_info.word),
     pos      |-> "center",
     duration |-> word_info.end - word_info.start,
     start    |-> word_info.start]

\* l.118-122: the inner loop, appending to text_clips
RECURSIVE AppendWords(_, _)
AppendWords(clips, words) ==
    IF words = <<>> THEN clips
    ELSE AppendWords(Append(clips, TextClip(Head(words))), Tail(words))

\* l.116-122: the outer loop
RECURSIVE AppendSegments(_, _)
AppendSegments(clips, segs) ==
    IF segs = <<>> THEN clips
    ELSE AppendSegments(AppendWords(clips, WordsOf(Head(segs))), Tail(segs))

TextClips(segs) == AppendSegments(<<>>, segs)

\* l.114-122 and the handler l.128-132
BuildClips(s) ==
    /\ pc[s] = "create_video"
    /\ \/ /\ files[TEMP_VIDEO].kind = "video"
          /\ files[TEMP_VIDEO].video.decodable
          /\ ~segments[s].is_none
          /\ video_clip' = Set(video_clip, s, files[TEMP_VIDEO].video)
          /\ text_clips' = Set(text_clips, s, TextClips(segments[s].list))
          /\ pc' = Set(pc, s, "L124")
          /\ UNCHANGED <<final_video_path, log>>
       \/ \* VideoFileClip raises, the loop raises on None, or TextClip raises
          \* (no ImageMagick) on the first word
          /\ \/ files[TEMP_VIDEO].kind # "video"
             \/ ~files[TEMP_VIDEO].video.decodable
             \/ segments[s].is_none
             \/ TextClips(segments[s].list) # <<>>
          /\ final_video_path' = Set(final_video_path, s, None)
          /\ Emit(s, <<Error("Error creating captioned video"), Fail("composite")>>)
          /\ pc' = Set(pc, s, ret[s])
          /\ UNCHANGED <<video_clip, text_clips>>
    /\ UNCHANGED <<env, files, remote, ret, run, pres, caption_video_file, segments, delivered>>

\* l.124-127 and the handler l.128-132
Composite(s) ==
    /\ pc[s] = "L124"
    /\ \/ /\ files' = [files EXCEPT ![TEMP_CAPTIONED] = Rendered(video_clip[s], text_clips[s])]
          /\ final_video_path' = Set(final_video_path, s, TEMP_CAPTIONED)
          /\ Emit(s, <<Ev("write_videofile", TEMP_CAPTIONED), Ok("composite")>>)
       \/ \* CompositeVideoClip or write_videofile raises
          /\ final_video_path' = Set(final_video_path, s, None)
          /\ Emit(s, <<Error("Error creating captioned video"), Fail("composite")>>)
          /\ UNCHANGED files
    /\ pc' = Set(pc, s, ret[s])
    /\ UNCHANGED <<env, remote, ret, run, pres, caption_video_file, video_clip, segments,
                   text_clips, delivered>>

\* -------------------------------- the Captioning orchestrator (l.176-211)
\* l.176-181: a file is uploaded and the button is clicked
StartCaptioning(s) ==
    /\ CanStart(s)
    /\ run' = Set(run, s, run[s] + 1)
    /\ FreshRun(s, None, NoSegments)
    /\ \E u \in uploadable[s] : caption_video_file' = Set(caption_video_file, s, u)
    /\ IF ~Truthy(REPLICATE_API_TOKEN)
       THEN /\ log' = Set(log, s, <<Error("Replicate API Token is missing. Cannot generate captions.")>>)
            /\ pc' = Set(pc, s, "idle")
       ELSE /\ log' = Set(log, s, <<Begin("save")>>)
            /\ pc' = Set(pc, s, "L183")
    /\ UNCHANGED <<env, files, remote, ret, script>>

\* l.183-184: the upload is written to temp_video.mp4
SaveUpload(s) ==
    /\ pc[s] = "L183"
    /\ files' = [files EXCEPT ![TEMP_VIDEO] = VideoFile(caption_video_file[s])]
    /\ Emit(s, <<Ok("save"), Begin("extract")>>)
    /\ pc' = Set(pc, s, "L188")
    /\ UNCHANGED <<env, remote, ret, run, pres, capt>>

\* l.188: VideoFileClip("temp_video.mp4"), outside any try
OpenClip(s) ==
    /\ pc[s] = "L188"
    /\ IF files[TEMP_VIDEO].video.decodable
       THEN /\ video_clip' = Set(video_clip, s, files[TEMP_VIDEO].video)
            /\ pc' = Set(pc, s, "L189")
            /\ UNCHANGED log
       ELSE /\ Emit(s, <<Raised("OSError"), Fail("extract")>>)
            /\ pc' = Set(pc, s, "crashed")
            /\ UNCHANGED video_clip
    /\ UNCHANGED <<env, files, remote, ret, run, pres, caption_video_file, segments,
                   text_clips, final_video_path, delivered>>

\* l.189-194: video_clip.audio.write_audiofile, then the call of the transcription
ExtractAudio(s) ==
    /\ pc[s] = "L189"
    /\ IF video_clip[s].has_audio
       THEN /\ files' = [files EXCEPT ![TEMP_AUDIO] = AudioFile(video_clip[s])]
            /\ Emit(s, <<Ok("extract"), Begin("transcribe")>>)
            /\ pc' = Set(pc, s, "transcribe")
            /\ ret' = Set(ret, s, "L197")
       ELSE \* video_clip.audio is None
            /\ Emit(s, <<Raised("AttributeError"), Fail("extract")>>)
            /\ pc' = Set(pc, s, "crashed")
            /\ UNCHANGED <<files, ret>>
    /\ UNCHANGED <<env, remote, run, pres, capt>>

\* AfterTranscribe with `if segments is not None` for l.197's `if segments`.
AfterTranscribe_NotNone(s) ==
    /\ pc[s] = "L197"
    /\ IF ~segments[s].is_none
       THEN /\ Emit(s, <<Begin("composite")>>)
            /\ pc' = Set(pc, s, "create_video")
            /\ ret' = Set(ret, s, "L201")
       ELSE /\ Emit(s, <<Error("Could not transcribe the audio.")>>)
            /\ pc' = Set(pc, s, "idle")
            /\ UNCHANGED ret
    /\ UNCHANGED <<env, files, remote, run, pres, capt>>

\* l.197-199 and l.211
AfterTranscribe(s) ==
    /\ pc[s] = "L197"
    /\ IF ~segments[s].is_none /\ segments[s].list # <<>>
       THEN /\ Emit(s, <<Begin("composite")>>)
            /\ pc' = Set(pc, s, "create_video")
            /\ ret' = Set(ret, s, "L201")
       ELSE /\ Emit(s, <<Error("Could not transcribe the audio.")>>)
            /\ pc' = Set(pc, s, "idle")
            /\ UNCHANGED ret
    /\ UNCHANGED <<env, files, remote, run, pres, capt>>

\* l.201-202 and l.210
AfterCreateVideo(s) ==
    /\ pc[s] = "L201"
    /\ IF Truthy(final_video_path[s])
       THEN /\ Emit(s, <<Ev("st.success", "Captioned video generated!"), Begin("deliver")>>)
            /\ pc' = Set(pc, s, "L204")
       ELSE /\ Emit(s, <<Error("Could not create the final video.")>>)
            /\ pc' = Set(pc, s, "idle")
    /\ UNCHANGED <<env, files, remote, ret, run, pres, capt>>

\* l.204-206: the file is read for st.video
ShowVideo(s) ==
    /\ pc[s] = "L204"
    /\ delivered' = Set(delivered, s, Append(delivered[s], files[final_video_path[s]]))
    /\ Emit(s, <<Ev("st.video", "video_bytes")>>)
    /\ pc' = Set(pc, s, "L208")
    /\ UNCHANGED <<env, files, remote, ret, run, pres, caption_video_file, video_clip,
                   segments, text_clips, final_video_path>>

\* l.208-209: the file is opened again for st.download_button
OfferDownload(s) ==
    /\ pc[s] = "L208"
    /\ delivered' = Set(delivered, s, Append(delivered[s], files[final_video_path[s]]))
    /\ Emit(s, <<Ev("st.download_button", "captioned_video.mp4"), Ok("deliver")>>)
    /\ pc' = Set(pc, s, "idle")
    /\ UNCHANGED <<env, files, remote, ret, run, pres, caption_video_file, video_clip,
                   segments, text_clips, final_video_path>>

\* ------------------------------------------------------ specifications
EmptyDir == [p \in Paths |-> Missing]

\* The videos of the application's user: speech with two words, speech with a
\* word of no duration, silence, a video without an audio track, a file that
\* does not decode.
AppUploads(s) ==
    { Upload(UploadId(s), TRUE, TRUE, <<Seg(<<Tok("hi", 0, 4), Tok("there", 4, 9)>>)>>),
      Upload(UploadId(s), TRUE, TRUE, <<Seg(<<Tok("Ok", 9, 12)>>), Seg(<<Tok("um", 4, 4)>>)>>),
      Upload(UploadId(s), TRUE, TRUE, <<>>),
      Upload(UploadId(s), TRUE, FALSE, <<>>),
      Upload(UploadId(s), FALSE, FALSE, <<>>) }

PresenterStep(s) ==
    \/ StartPresenter(s)
    \/ AfterCreateTalk(s)
    \/ AfterGetTalkResult(s)

CreateTalkStep(s) ==
    \/ CreateTalk(s)
    \/ CreateTalkPost(s)

PollStep(s) ==
    \/ GetTalkResult(s)
    \/ LoopTest(s)
    \/ StatusQuery(s)
    \/ Toast(s)
    \/ Sleep(s)
    \/ ReturnResult(s)

TranscribeStep(s) ==
    \/ Transcribe(s)
    \/ TranscribeRun(s)

CreateVideoStep(s) ==
    \/ BuildClips(s)
    \/ Composite(s)

CaptioningStep(s) ==
    \/ StartCaptioning(s)
    \/ SaveUpload(s)
    \/ OpenClip(s)
    \/ ExtractAudio(s)
    \/ AfterTranscribe(s)
    \/ AfterCreateVideo(s)
    \/ ShowVideo(s)
    \/ OfferDownload(s)

\* Spec: the application with one session; each run is one of the two pipelines.
Init ==
    /\ InitCommon
    /\ files = EmptyDir
    /\ remote = [s \in Sessions |-> NoJob]
    /\ uploadable = [s \in Sessions |-> AppUploads(s)]

Next ==
    \/ PresenterStep(1)
    \/ CreateTalkStep(1)
    \/ PollStep(1)
    \/ CaptioningStep(1)
    \/ TranscribeStep(1)
    \/ CreateVideoStep(1)
    \/ RemoteProgress(1)

Spec == Init /\ [][Next]_vars

\* FairSpec: the same, with the script's thread running on while it polls: a
\* statement of get_talk_result that can execute eventually does.
FairSpec == Spec /\ WF_vars(PollStep(1))

\* ConcSpec: two sessions of one server caption their own uploads concurrently.
ConcUpload(s) ==
    Upload(UploadId(s), TRUE, TRUE,
           IF s = 1 THEN <<Seg(<<Tok("hi", 0, 4), Tok("there", 4, 9)>>)>>
                    ELSE <<Seg(<<Tok("Ok", 9, 12)>>)>>)

ConcInit ==
    /\ InitCommon
    /\ files = EmptyDir
    /\ remote = [s \in Sessions |-> NoJob]
    /\ uploadable = [s \in Sessions |-> {ConcUpload(s)}]

ConcNext ==
    \E s \in Sessions :
        \/ CaptioningStep(s)
        \/ TranscribeStep(s)
        \/ CreateVideoStep(s)

ConcSpec == ConcInit /\ [][ConcNext]_vars

\* UnitSpec: each helper called on its own, with any argument, from a working
\* directory and a remote job in any condition.
CanCall(s) == pc[s] = "idle" /\ run[s] = 0

CallCreateTalk(s) ==
    /\ CanCall(s)
    /\ run' = Set(run, s, 1)
    /\ FreshRun(s, None, NoSegments)
    /\ \E sc \in Scripts : script' = Set(script, s, sc)
    /\ pc' = Set(pc, s, "create_talk")
    /\ ret' = Set(ret, s, "idle")
    /\ log' = Set(log, s, <<Ev("call", "create_talk")>>)
    /\ UNCHANGED <<env, files, remote, caption_video_file>>

CallGetTalkResult(s) ==
    /\ CanCall(s)
    /\ run' = Set(run, s, 1)
    /\ \E id \in TalkIds : FreshRun(s, id, NoSegments)
    /\ pc' = Set(pc, s, "get_talk_result")
    /\ ret' = Set(ret, s, "idle")
    /\ log' = Set(log, s, <<Ev("call", "get_talk_result")>>)
    /\ UNCHANGED <<env, files, remote, script, caption_video_file>>

CallTranscribe(s) ==
    /\ CanCall(s)
    /\ run' = Set(run, s, 1)
    /\ FreshRun(s, None, NoSegments)
    /\ pc' = Set(pc, s, "transcribe")
    /\ ret' = Set(ret, s, "idle")
    /\ log' = Set(log, s, <<Ev("call", "transcribe_audio_with_timestamps")>>)
    /\ UNCHANGED <<env, files, remote, script, caption_video_file>>

CallCreateVideo(s) ==
    /\ CanCall(s)
    /\ run' = Set(run, s, 1)
    /\ \E segs \in {Segments(l) : l \in Transcripts} \cup {NoSegments} :
         FreshRun(s, None, segs)
    /\ pc' = Set(pc, s, "create_video")
    /\ ret' = Set(ret, s, "idle")
    /\ log' = Set(log, s, <<Ev("call", "create_video_with_captions")>>)
    /\ UNCHANGED <<env, files, remote, script, caption_video_file>>

UnitFixtures ==
    { EmptyDir,
      [EmptyDir EXCEPT ![TEMP_VIDEO] = VideoFile(ConcUpload(1)),
                       ![TEMP_AUDIO] = AudioFile(ConcUpload(1))],
      [EmptyDir EXCEPT ![TEMP_VIDEO] = VideoFile(Upload(UploadId(1), FALSE, FALSE, <<>>))] }

UnitInit ==
    /\ InitCommon
    /\ files \in UnitFixtures
    /\ \E j \in {NoJob, JobIn("pending"), JobError} \cup {JobDone(u) : u \in Urls} :
         remote = [s \in Sessions |-> IF s = 1 THEN j ELSE NoJob]
    /\ uploadable = [s \in Sessions |-> {}]

UnitNext ==
    \/ CallCreateTalk(1)
    \/ CallGetTalkResult(1)
    \/ CallTranscribe(1)
    \/ CallCreateVideo(1)
    \/ CreateTalkStep(1)
    \/ PollStep(1)
    \/ TranscribeStep(1)
    \/ CreateVideoStep(1)
    \/ RemoteProgress(1)

UnitSpec == UnitInit /\ [][UnitNext]_vars

\* ================================================================ claims
Max(S) == CHOOSE x \in S : \A y \in S : y <= x
Answers(q) == {i \in 1..Len(q) : q[i][1] = "200"}
\* The status of the most recent answered status query of the run (None: none yet).
LastAnswer(q) == IF Answers(q) = {} THEN None ELSE q[Max(Answers(q))][2]
IsRequest(e) == e[1] \in {"POST", "GET", "replicate.run"}
\* A remote call that failed, or an answer reporting the job's failure.
IsFailure(e) ==
    \/ e \in {Fail("submit"), Fail("poll"), Fail("transcribe")}
    \/ e = Answer("error")

\* C1: get_talk_result returns a result URL only when the last status it observed
\* is `done`, and then the URL of that answer; after an `error` answer it returns
\* None; the Presenter displays a video only for a job it observed `done`.
C1_ResultOnlyWhenDone ==
    \A s \in Sessions :
        /\ Truthy(video_url[s]) =>
              /\ LastAnswer(log[s]) = "done"
              /\ remote[s].status = "done"
              /\ video_url[s] = remote[s].result_url
        /\ (LastAnswer(log[s]) = "error" /\ pc[s] \in {"L163", "idle"}) =>
              /\ video_url[s] = None
              /\ Has(log[s], Fail("poll"))
        /\ Has(log[s], Begin("display")) =>
              /\ LastAnswer(log[s]) = "done"
              /\ Has(log[s], Ev("st.video", remote[s].result_url))

\* Scenario A: `processing` once, then `done`; the orchestrator shows the URL.
C1_Witness ==
    /\ pc[1] = "idle"
    /\ Has(log[1], Answer("processing"))
    /\ LastAnswer(log[1]) = "done"
    /\ Has(log[1], Ev("st.video", "https://x/v.mp4"))

\* C2: create_talk never submits an empty script: no POST carries "".
C2_EmptyScriptNeverPosted ==
    \A s \in Sessions : ~Has(log[s], Post(""))

\* C3: no automatic retry: a run sends at most one submit request, and no request
\* follows a failed remote call or an `error` answer; a run that ended after such
\* a failure has reported it.
C3_NoRetry ==
    \A s \in Sessions :
        /\ Count(log[s], "POST") <= 1
        /\ \A i, j \in 1..Len(log[s]) :
              (i < j /\ IsFailure(log[s][i])) => ~IsRequest(log[s][j])
        /\ (pc[s] = "idle" /\ \E i \in 1..Len(log[s]) : IsFailure(log[s][i])) =>
              HasKind(log[s], "st.error")

\* Scenario D: `pending`, then `error`; the run ends with the failure reported.
C3_Witness ==
    /\ pc[1] = "idle"
    /\ Has(log[1], Answer("pending"))
    /\ LastAnswer(log[1]) = "error"
    /\ Count(log[1], "GET") = 2
    /\ Has(log[1], Error("D-ID job failed"))
\* The stage that precedes a stage in its pipeline (None: it is the first).
Prev(stage) ==
    CASE stage = "poll"       -> "submit"
      [] stage = "display"    -> "poll"
      [] stage = "extract"    -> "save"
      [] stage = "transcribe" -> "extract"
      [] stage = "composite"  -> "transcribe"
      [] stage = "deliver"    -> "composite"
      [] OTHER                -> None
\* The stage an effect of the log belongs to (None: to no stage).
StageOf(e) ==
    CASE e[1] = "POST"            -> "submit"
      [] e[1] = "GET"             -> "poll"
      [] e[1] = "replicate.run"   -> "transcribe"
      [] e[1] = "write_videofile" -> "composite"
      [] e[1] \in {"st.video", "st.download_button"} ->
            IF e[2] \in Urls THEN "display" ELSE "deliver"
      [] OTHER                    -> None

\* C4: in both orchestrators a stage starts, and has effects, only after the
\* preceding stage of the same run completed successfully, and after a failed
\* stage no stage starts and no stage has any effect; no transcription request
\* follows a failed audio extraction.
C4_StagesInOrder ==
    \A s \in Sessions : \A j \in 1..Len(log[s]) :
        LET e == log[s][j]
            stage == IF e[1] = "begin" THEN e[2] ELSE StageOf(e)
        IN  stage # None =>
              /\ \A i \in 1..(j - 1) : log[s][i][1] # "fail"
              /\ Prev(stage) # None => \E i \in 1..(j - 1) : log[s][i] = Ok(Prev(stage))
              /\ e[1] # "begin" => \E i \in 1..(j - 1) : log[s][i] = Begin(stage)

\* A run whose transcription failed after a successful extraction, and ended.
C4_Witness ==
    /\ pc[1] = "idle"
    /\ Has(log[1], Ok("extract"))
    /\ Has(log[1], Whisper)
    /\ Has(log[1], Fail("transcribe"))

Falsy(segs) == segs.is_none \/ segs.list = <<>>
InCreateVideo(s) == pc[s] \in {"create_video", "L124", "L201", "L204", "L208"}

\* C5: when transcription failed or gave no segments, create_video_with_captions
\* is not invoked and nothing is shown or offered for download; what is delivered
\* comes after extraction, transcription and compositing all succeeded.
C5_NoPartialCaptioning ==
    \A s \in Sessions :
        /\ Falsy(segments[s]) =>
              /\ ~InCreateVideo(s)
              /\ ~Has(log[s], Begin("composite"))
              /\ ~HasKind(log[s], "write_videofile")
              /\ ~HasKind(log[s], "st.download_button")
              /\ delivered[s] = <<>>
        /\ (delivered[s] # <<>> \/ HasKind(log[s], "st.download_button")) =>
              /\ Has(log[s], Ok("extract"))
              /\ Has(log[s], Ok("transcribe"))
              /\ Has(log[s], Ok("composite"))
              /\ ~HasKind(log[s], "fail")

\* The model answered without segments: the run ended with the error reported.
C5_Witness ==
    /\ pc[1] = "idle"
    /\ Has(log[1], Whisper)
    /\ segments[1] = Segments(<<>>)
    /\ Has(log[1], Error("Could not transcribe the audio."))
\* What session s's caption run must be given: its own upload, with the overlays
\* of what is said in it.
OwnVideo(s) == Rendered(caption_video_file[s], TextClips(caption_video_file[s].speech))

\* C6: for any interleaving of two concurrent Captioning runs, the clip a run
\* opens and the video and download it is given derive from its own upload: no
\* temporary file written by the other run is read in between.
C6_AssetsInvocationScoped ==
    \A s \in Sessions :
        /\ video_clip[s] \in {NoFile, caption_video_file[s]}
        /\ \A i \in 1..Len(delivered[s]) : delivered[s][i] = OwnVideo(s)

InPoll(s) == pc[s] \in {"L80", "L82", "L86", "L87", "L91"}
QueryFailed(s) ==
    \/ Has(log[s], Error("Error getting D-ID result"))
    \/ Has(log[s], Raised("ValueError"))
\* get_talk_result has returned what the job's final status calls for.
Settled(s) ==
    /\ pc[s] = "L163"
    /\ remote[s].status = "done" =>
          /\ Truthy(video_url[s])
          /\ video_url[s] = remote[s].result_url
    /\ remote[s].status = "error" =>
          /\ video_url[s] = None
          /\ Has(log[s], Error("D-ID job failed"))

\* C7: once the remote job is `done` or `error`, a get_talk_result that is polling
\* it eventually returns, with the URL for `done` and None for `error`, unless a
\* status query failed; however many non-terminal answers came before.
C7_EventuallyReturns ==
    \A s \in Sessions :
        (InPoll(s) /\ remote[s].status \in TerminalStatuses)
            ~> (Settled(s) \/ QueryFailed(s))

\* MaxPolls non-terminal answers, then `done`: the URL is returned.
C7_Witness ==
    /\ pc[1] = "L163"
    /\ Count(log[1], "GET") = MaxPolls + 1
    /\ ~QueryFailed(1)
    /\ remote[1].status = "done"
    /\ Truthy(video_url[1])

\* The number of words of a list of segments.
RECURSIVE WordCount(_)
WordCount(segs) ==
    IF segs = <<>> THEN 0
    ELSE (IF Head(segs).has_words THEN Len(Head(segs).words) ELSE 0) + WordCount(Tail(segs))
\* The overlay of word i of segment k is at the place of the words before it.
Place(segs, k, i) == WordCount(SubSeq(segs, 1, k - 1)) + i
\* The list handed to CompositeVideoClip by a create_video_with_captions that got
\* past its loop.
Handed(s) == pc[s] = "L124" \/ Has(log[s], Ok("composite"))

\* C8: the overlays handed to the compositor are one per word, in the order of the
\* words: as many as there are words, each with the word uppercased, centered,
\* starting at the word's start and lasting end - start; for every list of
\* segments, the empty list and segments without words among them.
C8_OneOverlayPerWord ==
    \A s \in Sessions : Handed(s) =>
        LET segs == segments[s].list
            clips == text_clips[s]
        IN  /\ Len(clips) = WordCount(segs)
            /\ \A k \in 1..Len(segs) :
                 segs[k].has_words => \A i \in 1..Len(segs[k].words) :
                    LET w == segs[k].words[i]
                        c == clips[Place(segs, k, i)]
                    IN  /\ c.text = Upper(w.word)
                        /\ c.start = w.start
                        /\ c.duration = w.end - w.start
                        /\ c.pos = "center"
            /\ Has(log[s], Ok("composite")) => files[TEMP_CAPTIONED].captions = clips

\* Scenario C after a segment without words: two overlays, HI and THERE.
C8_Witness ==
    /\ pc[1] = "L124"
    /\ segments[1].list = <<SegBare, Seg(<<Tok("hi", 0, 4), Tok("there", 4, 9)>>)>>
    /\ text_clips[1] = <<[text |-> "HI", pos |-> "center", duration |-> 4, start |-> 0],
                         [text |-> "THERE", pos |-> "center", duration |-> 5, start |-> 4]>>

\* C9: no overlay of zero or negative duration is composited: every overlay of a
\* written captioned video lasts longer than nothing.
C9_NoEmptyOverlay ==
    \A p \in Paths : files[p].kind = "captioned" =>
        \A i \in 1..Len(files[p].captions) : files[p].captions[i].duration > 0

Called(s, helper) == Has(log[s], Ev("call", helper))
Returned(s) == pc[s] = "idle" /\ run[s] > 0

\* C10: without the avatar-service key create_talk and get_talk_result send no
\* request, and without the transcription token
\* transcribe_audio_with_timestamps sends none; each returns None.
C10_CredentialsBeforeNetwork ==
    \A s \in Sessions :
        /\ ~Truthy(D_ID_API_KEY) =>
              /\ ~HasKind(log[s], "POST") /\ ~HasKind(log[s], "GET")
              /\ (Returned(s) /\ Called(s, "create_talk")) =>
                    talk_data[s].is_none /\ Has(log[s], Fail("submit"))
              /\ (Returned(s) /\ Called(s, "get_talk_result")) =>
                    video_url[s] = None /\ Has(log[s], Fail("poll"))
        /\ ~Truthy(REPLICATE_API_TOKEN) =>
              /\ ~HasKind(log[s], "replicate.run")
              /\ (Returned(s) /\ Called(s, "transcribe_audio_with_timestamps")) =>
                    segments[s].is_none /\ Has(log[s], Fail("transcribe"))

\* create_talk called without the key: it returned None with its message.
C10_Witness ==
    /\ D_ID_API_KEY = None
    /\ Returned(1)
    /\ Called(1, "create_talk")
    /\ Has(log[1], Error("D-ID API Key not found"))
\* C11: in both pipelines a stage that fails ends the run with an error message
\* shown: no run ends in an uncaught exception, and a run that ended after a
\* failed stage has shown an st.error.
C11_FailuresCaught ==
    \A s \in Sessions :
        /\ pc[s] # "crashed"
        /\ (pc[s] = "idle" /\ HasKind(log[s], "fail")) => HasKind(log[s], "st.error")

InSubmit(s) == pc[s] \in {"create_talk", "L68", "L158"}
NotStarted == Error("Failed to start the video generation job.")

\* C12: a submission of a non-empty script with the key set either gives a
\* non-empty job id or is reported as a failure: once the orchestrator is past
\* it, polling has begun with exactly the id create_talk returned, or the error
\* is shown and no status query is sent; every status query carries that id.
C12_PollOnlyWithReturnedId ==
    \A s \in Sessions :
        /\ (Has(log[s], Begin("submit")) /\ ~InSubmit(s) /\ pc[s] # "crashed") =>
              \/ /\ Has(log[s], Begin("poll"))
                 /\ Has(log[s], Ok("submit"))
                 /\ Truthy(talk_id[s])
                 /\ talk_id[s] = talk_data[s].id
              \/ /\ Has(log[s], NotStarted)
                 /\ ~Has(log[s], Begin("poll"))
                 /\ ~HasKind(log[s], "GET")
        /\ \A j \in 1..Len(log[s]) : log[s][j][1] = "GET" =>
              /\ Truthy(log[s][j][2])
              /\ ~talk_data[s].is_none /\ log[s][j][2] = talk_data[s].id
              /\ \E i \in 1..(j - 1) : log[s][i] = Post(script[s])

\* The service answered 2xx with an empty id: the run ended with the error shown.
C12_Witness ==
    /\ pc[1] = "idle"
    /\ talk_data[1] = TalkData("")
    /\ Has(log[1], Post("Hello world"))
    /\ Has(log[1], NotStarted)
\* get_talk_result has left its loop, or returned to the Presenter orchestrator.
LeftLoop(s) == pc[s] = "L91" \/ (Has(log[s], Begin("poll")) /\ pc[s] \in {"L163", "idle"})

\* C13: get_talk_result has no attempt limit and no timeout: it leaves its loop
\* only after an answer with a terminal status or after a failed status query,
\* however many non-terminal answers it got.
C13_NoAttemptLimit ==
    \A s \in Sessions : LeftLoop(s) =>
        \/ LastAnswer(log[s]) \in TerminalStatuses
        \/ QueryFailed(s)

\* MaxPolls answers, none terminal, no query failed: the call is about to query again.
C13_Witness ==
    /\ pc[1] = "L82"
    /\ Count(log[1], "200") = MaxPolls
    /\ LastAnswer(log[1]) \notin TerminalStatuses
    /\ ~QueryFailed(1)

KindAt(q, K) == {k \in 1..Len(q) : q[k][1] = K}

\* C14: between two consecutive status queries of a call there is exactly one
\* wait of the poll interval.
C14_OneWaitBetweenQueries ==
    \A s \in Sessions : \A i, j \in KindAt(log[s], "GET") :
        (i < j /\ \A k \in (i + 1)..(j - 1) : log[s][k][1] # "GET") =>
            /\ Cardinality({k \in (i + 1)..(j - 1) : log[s][k][1] = "time.sleep"}) = 1
            /\ \A k \in (i + 1)..(j - 1) : log[s][k][1] = "time.sleep" => log[s][k][2] = "10"

\* Three status queries, a wait after each of the first two.
C14_Witness ==
    /\ Count(log[1], "GET") = 3
    /\ Count(log[1], "time.sleep") >= 2
    /\ ~QueryFailed(1)

\* C15: after an answer with a terminal status the call sends no status query and
\* waits no more before it returns: waits follow non-terminal answers only.
C15_NoWaitAfterTerminal ==
    \A s \in Sessions : \A i, j \in 1..Len(log[s]) :
        (i < j /\ log[s][i][1] = "200" /\ log[s][i][2] \in TerminalStatuses) =>
            log[s][j][1] \notin {"GET", "time.sleep"}

\* C16: every answered status query is followed at once by one st.toast with the
\* status of that answer, and there is no other st.toast: outside the step from
\* l.85 to l.86 the toasts are as many as the answered queries, and a failed
\* query has none.
C16_OneToastPerAnswer ==
    \A s \in Sessions :
        /\ Count(log[s], "st.toast") = Count(log[s], "200") - (IF pc[s] = "L86" THEN 1 ELSE 0)
        /\ \A j \in KindAt(log[s], "st.toast") :
              j > 1 /\ log[s][j - 1] = Answer(log[s][j][2])
        /\ \A j \in KindAt(log[s], "200") :
              IF j = Len(log[s]) THEN pc[s] = "L86"
              ELSE log[s][j + 1] = Ev("st.toast", log[s][j][2])

\* Two answered queries with their toasts, then a failed one without.
C16_Witness ==
    /\ Has(log[1], Ev("st.toast", "pending"))
    /\ Has(log[1], Ev("st.toast", "processing"))
    /\ Count(log[1], "GET") = 3
    /\ Count(log[1], "st.toast") = 2
    /\ Has(log[1], Error("Error getting D-ID result"))

====
